---- MODULE Spec2Model ----
(***************************************************************************)
(* A model of the italo-api client: the timestamp codec and the           *)
(* JourneyRequest builder (src/src/journey/mod.rs), the session gate and  *)
(* the station catalog join (src/src/lib.rs).                             *)
(*                                                                         *)
(* Strings the code inspects character by character are sequences of      *)
(* one-character strings; Option<T> is a sequence of length 0 (None) or 1 *)
(* (Some).  A DateTime<Utc> is [secs, millis]: whole epoch seconds        *)
(* (floor) and the millisecond within the second.                         *)
(***************************************************************************)
EXTENDS Integers, Sequences, FiniteSets, TLC

VARIABLES req, last, leg, access, page, stations, signature, call, calls, outcome, tasks

vars == <<req, last, leg, access, page, stations, signature, call, calls, outcome, tasks>>

builderVars == <<req, last>>

timeVars == <<leg, access>>

stationVars == <<page, stations>>

apiVars == <<signature, call, calls, outcome>>

taskVars == <<tasks>>

None == <<>>

Some(x) == <<x>>

(***************************************************************************)
(* Decimal text and string helpers (std / chrono as the code calls them)  *)
(***************************************************************************)
Digits == <<"0", "1", "2", "3", "4", "5", "6", "7", "8", "9">>

IsDigit(c) == \E d \in 1..10 : Digits[d] = c

DigitVal(c) == (CHOOSE d \in 1..10 : Digits[d] = c) - 1

RECURSIVE DecimalNat(_)
DecimalNat(n) ==
    IF n < 10 THEN <<Digits[n + 1]>>
    ELSE DecimalNat(n \div 10) \o <<Digits[(n % 10) + 1]>>

\* Display of a signed integer, as chrono's %s writes the epoch second.
Decimal(n) == IF n < 0 THEN <<"-">> \o DecimalNat(-n) ELSE DecimalNat(n)

\* str::split_once(c): the text before and the text after the first c.
split_once(s, c) ==
    IF \E i \in 1..Len(s) : s[i] = c
    THEN LET i == CHOOSE k \in 1..Len(s) : s[k] = c /\ \A j \in 1..(k - 1) : s[j] # c
         IN  Some([before |-> SubSeq(s, 1, i - 1), after |-> SubSeq(s, i + 1, Len(s))])
    ELSE None

RECURSIVE StripZeros(_)
StripZeros(ds) ==
    IF ds # <<>> /\ Head(ds) = "0" THEN StripZeros(Tail(ds)) ELSE ds

\* a < b or a = b for two digit runs without leading zeros
LeqDigits(a, b) ==
    \/ Len(a) < Len(b)
    \/ /\ Len(a) = Len(b)
       /\ \/ a = b
          \/ \E i \in 1..Len(a) :
                /\ \A j \in 1..(i - 1) : a[j] = b[j]
                /\ DigitVal(a[i]) < DigitVal(b[i])

I64MaxDigits ==
    <<"9","2","2","3","3","7","2","0","3","6","8","5","4","7","7","5","8","0","7">>

I64MinDigits ==
    <<"9","2","2","3","3","7","2","0","3","6","8","5","4","7","7","5","8","0","8">>

\* str::parse::<i64>(): an optional sign, then one or more digits, within
\* the 64-bit range.  The value is kept as sign and magnitude digits (no
\* leading zeros; zero is the empty run), so that the full width is modelled.
parse_i64(s) ==
    LET signed == s # <<>> /\ s[1] \in {"+", "-"}
        body   == IF signed THEN Tail(s) ELSE s
        neg    == signed /\ s[1] = "-"
        mag    == StripZeros(body)
    IN  IF body = <<>> \/ \E i \in 1..Len(body) : ~IsDigit(body[i])
        THEN None
        ELSE IF (neg /\ ~LeqDigits(mag, I64MinDigits)) \/ (~neg /\ ~LeqDigits(mag, I64MaxDigits))
        THEN None
        ELSE Some([neg |-> neg /\ mag # <<>>, mag |-> mag])

\* i64 division by 1000 (truncating toward zero): the magnitude loses its
\* last three digits.
Div1000(v) ==
    LET m == IF Len(v.mag) > 3 THEN SubSeq(v.mag, 1, Len(v.mag) - 3) ELSE <<>>
    IN  [neg |-> v.neg /\ m # <<>>, mag |-> m]

RECURSIVE NatOfDigits(_)
NatOfDigits(ds) ==
    IF ds = <<>> THEN 0
    ELSE 10 * NatOfDigits(SubSeq(ds, 1, Len(ds) - 1)) + DigitVal(ds[Len(ds)])

\* chrono's range of epoch seconds, as magnitudes: the last second of the
\* year 262142 and the first of the year -262143 (NaiveDate::MAX and MIN).
ChronoMaxSecs == <<"8","2","1","0","2","6","6","8","7","6","7","9","9">>

ChronoMinSecs == <<"8","3","3","4","6","0","1","3","1","5","2","0","0">>

\* DateTime::from_timestamp(secs, 0): None outside chrono's range.
from_timestamp(v) ==
    IF (v.neg /\ ~LeqDigits(v.mag, ChronoMinSecs)) \/ (~v.neg /\ ~LeqDigits(v.mag, ChronoMaxSecs))
    THEN None
    ELSE Some([secs |-> IF v.neg THEN 0 - NatOfDigits(v.mag) ELSE NatOfDigits(v.mag),
               millis |-> 0])

(***************************************************************************)
(* The timestamp codec                                                     *)
(***************************************************************************)
\* A call's outcome: Ok(value), Err, or a panic that unwinds the caller.
Ok(v) == [kind |-> "Ok", value |-> Some(v)]

Err == [kind |-> "Err", value |-> None]

Panic == [kind |-> "Panic", value |-> None]

\* The strftime items of "/Date(%s000+0000)/": literals and the %s specifier.
\* Variant: the pattern without the three zeros, "/Date(%s+0000)/".
DATE_TIME_PATTERN_secs ==
    <<"/", "D", "a", "t", "e", "(", "%s", "+", "0", "0", "0", "0", ")", "/">>

DATE_TIME_PATTERN ==
    <<"/", "D", "a", "t", "e", "(", "%s", "0", "0", "0", "+", "0", "0", "0", "0", ")", "/">>

\* DateTime::format(pattern).to_string(): %s is the epoch second, every
\* other item is copied.
RECURSIVE format(_, _)
format(val, pattern) ==
    IF pattern = <<>> THEN <<>>
    ELSE (IF Head(pattern) = "%s" THEN Decimal(val.secs) ELSE <<Head(pattern)>>)
         \o format(val, Tail(pattern))

\* Variant: the run is taken up to the first ')' instead of the first '+'.
extract_utc_time_to_paren(val) ==
    LET a == split_once(val, "(")
    IN  IF a = None THEN Err
        ELSE LET b == split_once(a[1].after, ")")
             IN  IF b = None THEN Err
                 ELSE LET n == parse_i64(b[1].before)
                      IN  IF n = None THEN Panic
                          ELSE LET t == from_timestamp(Div1000(n[1]))
                               IN  IF t = None THEN Err ELSE Ok(t[1])

\* extract_utc_time: the text between the first '(' and the first '+' after
\* it, parsed as i64 (a failed parse panics: `.expect`), divided by 1000
\* and taken as epoch seconds.
extract_utc_time(val) ==
    LET a == split_once(val, "(")
    IN  IF a = None THEN Err
        ELSE LET b == split_once(a[1].after, "+")
             IN  IF b = None THEN Err
                 ELSE LET n == parse_i64(b[1].before)
                      IN  IF n = None THEN Panic
                          ELSE LET t == from_timestamp(Div1000(n[1]))
                               IN  IF t = None THEN Err ELSE Ok(t[1])

(***************************************************************************)
(* JourneyRequest: the builder                                             *)
(***************************************************************************)
\* Inputs the setters are called with.
StationInputs ==
    { [code |-> "NAC", url_coding |-> "napoli-centrale", name |-> "Napoli Centrale"] }

TimeInputs ==
    { [secs |-> 1700000000, millis |-> 0], [secs |-> 1700000000, millis |-> 123] }

OptTimeInputs == {None} \cup { Some(t) : t \in TimeInputs }

NumberInputs == {2}

CurrencyInputs == {"USD"}

\* impl Default for JourneyRequest
DefaultJourneyRequest ==
    [ departure_station |-> "",
      arrival_station |-> "",
      interval_start_date_time |-> <<>>,
      interval_end_date_time |-> <<>>,
      adult_number |-> 1,
      child_number |-> 0,
      infant_number |-> 0,
      senior_number |-> 0,
      override_interval_time_restriction |-> FALSE,
      currency_code |-> "EUR",
      is_guest |-> TRUE,
      round_trip |-> FALSE,
      round_trip_interval_start_date_time |-> None,
      round_trip_interval_end_date_time |-> None ]

\* The arguments of the last call, one shape for every operation.
NoArg ==
    [ station |-> "", time |-> None, num |-> 0, flag |-> FALSE, text |-> "",
      start |-> None, end |-> None ]

\* Variant: the flag and the start date are assigned before the dates are
\* matched, so a failing call leaves them behind.
set_round_trip_flag_first(r, flag, start, end) ==
    IF ~flag
    THEN [ok |-> TRUE,
          req |-> [r EXCEPT !.round_trip = FALSE,
                            !.round_trip_interval_start_date_time = None,
                            !.round_trip_interval_end_date_time = None]]
    ELSE IF start # None /\ end # None
    THEN [ok |-> TRUE,
          req |-> [r EXCEPT !.round_trip = TRUE,
                            !.round_trip_interval_start_date_time =
                                Some(format(start[1], DATE_TIME_PATTERN)),
                            !.round_trip_interval_end_date_time =
                                Some(format(end[1], DATE_TIME_PATTERN))]]
    ELSE [ok |-> FALSE,
          req |-> [r EXCEPT !.round_trip = TRUE,
                            !.round_trip_interval_start_date_time =
                                IF start = None THEN @
                                ELSE Some(format(start[1], DATE_TIME_PATTERN))]]

\* Variant: the false arm resets the flag and keeps the stored dates.
set_round_trip_keep_dates(r, flag, start, end) ==
    IF ~flag
    THEN [ok |-> TRUE, req |-> [r EXCEPT !.round_trip = FALSE]]
    ELSE IF start # None /\ end # None
    THEN [ok |-> TRUE,
          req |-> [r EXCEPT !.round_trip = TRUE,
                            !.round_trip_interval_start_date_time =
                                Some(format(start[1], DATE_TIME_PATTERN)),
                            !.round_trip_interval_end_date_time =
                                Some(format(end[1], DATE_TIME_PATTERN))]]
    ELSE [ok |-> FALSE, req |-> r]

\* JourneyRequest::set_round_trip: the three arms of the match.
set_round_trip(r, flag, start, end) ==
    IF ~flag
    THEN [ok |-> TRUE,
          req |-> [r EXCEPT !.round_trip = FALSE,
                            !.round_trip_interval_start_date_time = None,
                            !.round_trip_interval_end_date_time = None]]
    ELSE IF start # None /\ end # None
    THEN [ok |-> TRUE,
          req |-> [r EXCEPT !.round_trip = TRUE,
                            !.round_trip_interval_start_date_time =
                                Some(format(start[1], DATE_TIME_PATTERN)),
                            !.round_trip_interval_end_date_time =
                                Some(format(end[1], DATE_TIME_PATTERN))]]
    ELSE [ok |-> FALSE, req |-> r]

\* serde values: a tag and the value.
JsonString(s) == <<"string", s>>

JsonNumber(n) == <<"number", n>>

JsonBool(b) == <<"bool", b>>

JsonNull == <<"null">>

Member(k, v) == [key |-> k, value |-> v]

\* Variant: no skip_serializing_if, an unset date is written as null.
serialize_always(r) ==
    << Member("DepartureStation", JsonString(r.departure_station)),
       Member("ArrivalStation", JsonString(r.arrival_station)),
       Member("IntervalStartDateTime", JsonString(r.interval_start_date_time)),
       Member("IntervalEndDateTime", JsonString(r.interval_end_date_time)),
       Member("AdultNumber", JsonNumber(r.adult_number)),
       Member("ChildNumber", JsonNumber(r.child_number)),
       Member("InfantNumber", JsonNumber(r.infant_number)),
       Member("SeniorNumber", JsonNumber(r.senior_number)),
       Member("OverrideIntervalTimeRestriction",
              JsonBool(r.override_interval_time_restriction)),
       Member("CurrencyCode", JsonString(r.currency_code)),
       Member("IsGuest", JsonBool(r.is_guest)),
       Member("RoundTrip", JsonBool(r.round_trip)),
       Member("RoundTripIntervalStartDateTime",
              IF r.round_trip_interval_start_date_time = None THEN JsonNull
              ELSE JsonString(r.round_trip_interval_start_date_time[1])),
       Member("RoundTripIntervalEndDateTime",
              IF r.round_trip_interval_end_date_time = None THEN JsonNull
              ELSE JsonString(r.round_trip_interval_end_date_time[1])) >>

\* #[derive(Serialize)] with rename_all = "PascalCase": the members in field
\* order; skip_serializing_if = "Option::is_none" on the two round-trip dates.
serialize(r) ==
    << Member("DepartureStation", JsonString(r.departure_station)),
       Member("ArrivalStation", JsonString(r.arrival_station)),
       Member("IntervalStartDateTime", JsonString(r.interval_start_date_time)),
       Member("IntervalEndDateTime", JsonString(r.interval_end_date_time)),
       Member("AdultNumber", JsonNumber(r.adult_number)),
       Member("ChildNumber", JsonNumber(r.child_number)),
       Member("InfantNumber", JsonNumber(r.infant_number)),
       Member("SeniorNumber", JsonNumber(r.senior_number)),
       Member("OverrideIntervalTimeRestriction",
              JsonBool(r.override_interval_time_restriction)),
       Member("CurrencyCode", JsonString(r.currency_code)),
       Member("IsGuest", JsonBool(r.is_guest)),
       Member("RoundTrip", JsonBool(r.round_trip)) >>
    \o (IF r.round_trip_interval_start_date_time = None THEN <<>>
        ELSE << Member("RoundTripIntervalStartDateTime",
                       JsonString(r.round_trip_interval_start_date_time[1])) >>)
    \o (IF r.round_trip_interval_end_date_time = None THEN <<>>
        ELSE << Member("RoundTripIntervalEndDateTime",
                       JsonString(r.round_trip_interval_end_date_time[1])) >>)

Called(op, arg, ok, out) ==
    /\ last' = [op |-> op, arg |-> arg, ok |-> ok, out |-> out]
    /\ UNCHANGED <<timeVars, stationVars, apiVars, taskVars>>

SetDepartureStation ==
    \E val \in StationInputs :
        /\ req' = [req EXCEPT !.departure_station = val.code]
        /\ Called("set_departure_station", [NoArg EXCEPT !.station = val.code], TRUE, <<>>)

SetArrivalStation ==
    \E val \in StationInputs :
        /\ req' = [req EXCEPT !.arrival_station = val.code]
        /\ Called("set_arrival_station", [NoArg EXCEPT !.station = val.code], TRUE, <<>>)

SetIntervalStartDateTime ==
    \E val \in TimeInputs :
        /\ req' = [req EXCEPT !.interval_start_date_time = format(val, DATE_TIME_PATTERN)]
        /\ Called("set_interval_start_date_time", [NoArg EXCEPT !.time = Some(val)], TRUE, <<>>)

SetIntervalEndDateTime ==
    \E val \in TimeInputs :
        /\ req' = [req EXCEPT !.interval_end_date_time = format(val, DATE_TIME_PATTERN)]
        /\ Called("set_interval_end_date_time", [NoArg EXCEPT !.time = Some(val)], TRUE, <<>>)

SetAdultNumber ==
    \E val \in NumberInputs :
        /\ req' = [req EXCEPT !.adult_number = val]
        /\ Called("set_adult_number", [NoArg EXCEPT !.num = val], TRUE, <<>>)

SetChildNumber ==
    \E val \in NumberInputs :
        /\ req' = [req EXCEPT !.child_number = val]
        /\ Called("set_child_number", [NoArg EXCEPT !.num = val], TRUE, <<>>)

SetInfantNumber ==
    \E val \in NumberInputs :
        /\ req' = [req EXCEPT !.infant_number = val]
        /\ Called("set_infant_number", [NoArg EXCEPT !.num = val], TRUE, <<>>)

SetSeniorNumber ==
    \E val \in NumberInputs :
        /\ req' = [req EXCEPT !.senior_number = val]
        /\ Called("set_senior_number", [NoArg EXCEPT !.num = val], TRUE, <<>>)

SetOverrideIntervalTimeRestriction ==
    \E val \in BOOLEAN :
        /\ req' = [req EXCEPT !.override_interval_time_restriction = val]
        /\ Called("set_override_interval_time_restriction",
                  [NoArg EXCEPT !.flag = val], TRUE, <<>>)

SetCurrencyCode ==
    \E val \in CurrencyInputs :
        /\ req' = [req EXCEPT !.currency_code = val]
        /\ Called("set_currency_code", [NoArg EXCEPT !.text = val], TRUE, <<>>)

SetRoundTrip ==
    \E flag \in BOOLEAN, start \in OptTimeInputs, end \in OptTimeInputs :
        LET res == set_round_trip(req, flag, start, end)
        IN  /\ req' = res.req
            /\ Called("set_round_trip",
                      [NoArg EXCEPT !.flag = flag, !.start = start, !.end = end],
                      res.ok, <<>>)

\* The request as find_journeys hands it to serde (inside the envelope).
Serialize ==
    /\ req' = req
    /\ Called("serialize", NoArg, TRUE, serialize(req))

BuilderInit ==
    /\ req = DefaultJourneyRequest
    /\ last = [op |-> "default", arg |-> NoArg, ok |-> TRUE, out |-> <<>>]

(***************************************************************************)
(* JourneySegment / Stop: raw time fields decoded on access                *)
(***************************************************************************)
MaxFieldLen == 3

TimeAlphabet == {"(", "+", "7", "x"}

RECURSIVE StringsUpTo(_)
StringsUpTo(n) ==
    IF n = 0 THEN {<<>>}
    ELSE LET S == StringsUpTo(n - 1)
         IN  S \cup { Append(s, c) : s \in S, c \in TimeAlphabet }

\* Fields as the service (or anything in its place) may send them.
SampleFields ==
    { <<"/","D","a","t","e","(","1","7","0","0","0","0","0","0","0","0","0","0","0","+","0","1","0","0",")","/">>,
      <<"/","D","a","t","e","(","-","1","0","0","0","+","0","0","0","0",")","/">>,
      <<"/","D","a","t","e","(","1","7","0","0","0","0","0","0","0","0","0","0","0",")","/">>,
      <<"(","9","2","2","3","3","7","2","0","3","6","8","5","4","7","7","5","8","0","7","+">>,
      <<"(","9","9","9","9","9","9","9","9","9","9","9","9","9","9","9","9","9","9","9","9","+">> }

RawFields == StringsUpTo(MaxFieldLen) \cup SampleFields

\* JourneySegment::departure_time / Stop::departure_time
departure_time(l) == extract_utc_time(l.departure_time)

\* JourneySegment::arrival_time / Stop::arrival_time
arrival_time(l) == extract_utc_time(l.arrival_time)

NoAccess == [field |-> "none", result |-> Err]

DepartureTime ==
    /\ access' = [field |-> "departure_time", result |-> departure_time(leg)]
    /\ leg' = leg
    /\ UNCHANGED <<builderVars, stationVars, apiVars, taskVars>>

ArrivalTime ==
    /\ access' = [field |-> "arrival_time", result |-> arrival_time(leg)]
    /\ leg' = leg
    /\ UNCHANGED <<builderVars, stationVars, apiVars, taskVars>>

IdleLeg == [type |-> "none", departure_time |-> <<>>, arrival_time |-> <<>>]

TimesInit ==
    /\ leg \in { [type |-> ty, departure_time |-> d, arrival_time |-> a] :
                   ty \in {"JourneySegment", "Stop"}, d \in RawFields, a \in RawFields }
    /\ access = NoAccess

(***************************************************************************)
(* ItaloApi::station_list                                                  *)
(***************************************************************************)
MaxLabels == 2

MaxCodes == 3

LabelRecords ==
    { [label |-> l, value |-> v] : l \in {"", "Milano Centrale", "Milano C.le"},
                                   v \in {"MC_", "NAC"} }

CodeRecords ==
    { [code |-> "MC_", url_coding |-> "milano-centrale"],
      [code |-> "NAC", url_coding |-> "napoli-centrale"],
      [code |-> "RMT", url_coding |-> "roma-termini"] }

RECURSIVE ListsUpTo(_, _)
ListsUpTo(S, n) ==
    IF n = 0 THEN {<<>>}
    ELSE LET L == ListsUpTo(S, n - 1)
         IN  L \cup { Append(l, x) : l \in L, x \in S }

\* What the GET, the three markers and the two JSON parses can come to.
FetchFailures ==
    { "send", "text", "stationList not found", "stationCoding not found",
      "label_list json", "localization not found", "code_list json" }

\* label_list.iter().map(|e| (e.value(), e.label())).collect::<HashMap>():
\* a later entry replaces an earlier one with the same key.
RECURSIVE label_map(_)
label_map(label_list) ==
    IF label_list = <<>> THEN <<>>
    ELSE LET e == label_list[Len(label_list)]
             m == label_map(SubSeq(label_list, 1, Len(label_list) - 1))
         IN  IF \E i \in 1..Len(m) : m[i].key = e.value
             THEN [i \in 1..Len(m) |->
                     IF m[i].key = e.value THEN [key |-> e.value, label |-> e.label]
                     ELSE m[i]]
             ELSE Append(m, [key |-> e.value, label |-> e.label])

\* label_map.get(code).unwrap_or(&&"".to_string())
get_or_empty(m, code) ==
    IF \E i \in 1..Len(m) : m[i].key = code
    THEN m[CHOOSE i \in 1..Len(m) : m[i].key = code].label
    ELSE ""

\* Station::new(code, url_coding, name)
new_station(elem, m) ==
    [code |-> elem.code, url_coding |-> elem.url_coding, name |-> get_or_empty(m, elem.code)]

\* Variant: the map without the filter on the name.
join_stations_unfiltered(label_list, code_list) ==
    LET m == label_map(label_list)
    IN  [i \in 1..Len(code_list) |-> new_station(code_list[i], m)]

\* code_list.iter().map(Station::new ...).filter(|e| !e.name().is_empty()).collect()
join_stations(label_list, code_list) ==
    LET m == label_map(label_list)
        keep(st) == st.name # ""
    IN  SelectSeq([i \in 1..Len(code_list) |-> new_station(code_list[i], m)], keep)

station_list(p) ==
    IF p.fetch # "ok" THEN Err
    ELSE Ok(join_stations(p.label_list, p.code_list))

StationList ==
    /\ stations' = [called |-> TRUE, result |-> station_list(page)]
    /\ page' = page
    /\ UNCHANGED <<builderVars, timeVars, apiVars, taskVars>>

IdlePage == [fetch |-> "none", label_list |-> <<>>, code_list |-> <<>>]

NoStations == [called |-> FALSE, result |-> Err]

StationsInit ==
    /\ page \in { [fetch |-> "ok", label_list |-> ll, code_list |-> cl] :
                    ll \in ListsUpTo(LabelRecords, MaxLabels),
                    cl \in ListsUpTo(CodeRecords, MaxCodes) }
               \cup { [fetch |-> f, label_list |-> <<>>, code_list |-> <<>>] :
                        f \in FetchFailures }
    /\ stations = NoStations

(***************************************************************************)
(* ItaloApi: the session and find_journeys                                 *)
(***************************************************************************)
MaxCalls == 3

Tokens == {"sig1", "sig2"}

\* The source_system argument of InternalJourneyRequest::new in find_journeys.
SourceSystem == 2

\* Requests find_journeys is called with: the default one and a round trip.
JourneyInputs ==
    { DefaultJourneyRequest,
      set_round_trip(DefaultJourneyRequest, TRUE,
                     Some([secs |-> 1700000000, millis |-> 0]),
                     Some([secs |-> 1700000000, millis |-> 123])).req }

\* Variant: the check always answers false.
is_initialized_never(sig) == FALSE

\* ItaloApi::is_initialized
is_initialized(sig) == sig # None

\* InternalJourneyRequest::new(signature, 2, journey), serialized
InternalJourneyRequest(sig, journey) ==
    [Signature |-> sig, SourceSystem |-> SourceSystem,
     GetAvailableTrains |-> serialize(journey)]

\* The find_journeys call in flight (or the last one, once pc is "idle"):
\* where it is, the signature held when it began, the login and search
\* requests it has posted, and the search envelope it sent.  outcome is what
\* the last call that returned has returned.
IdleCall ==
    [pc |-> "idle", journey |-> DefaultJourneyRequest, started_with |-> None,
     logins |-> 0, searches |-> 0, sent |-> None]

Pending == [kind |-> "Pending", stage |-> "none"]

Returned(kind, stage) == [kind |-> kind, stage |-> stage]

\* find_journeys is entered: `match self.is_initialized()`.  With a token the
\* search request is built and its send awaited; without one init() posts
\* the login request and awaits its send.
FindJourneys ==
    /\ UNCHANGED <<builderVars, timeVars, stationVars, taskVars>>
    /\ call.pc = "idle"
    /\ calls < MaxCalls
    /\ calls' = calls + 1
    /\ UNCHANGED <<signature, outcome>>
    /\ \E journey \in JourneyInputs :
          IF is_initialized(signature)
          THEN call' = [pc |-> "search_send", journey |-> journey,
                        started_with |-> signature, logins |-> 0, searches |-> 1,
                        sent |-> Some(InternalJourneyRequest(signature[1], journey))]
          ELSE call' = [pc |-> "login_send", journey |-> journey,
                        started_with |-> signature, logins |-> 1, searches |-> 0,
                        sent |-> None]

\* init(): `.send().await?`
LoginSend ==
    /\ UNCHANGED <<builderVars, timeVars, stationVars, taskVars>>
    /\ call.pc = "login_send"
    /\ \E ok \in BOOLEAN :
          IF ok
          THEN /\ call' = [call EXCEPT !.pc = "login_json"]
               /\ UNCHANGED <<signature, calls, outcome>>
          ELSE /\ call' = [call EXCEPT !.pc = "idle"]
               /\ outcome' = Returned("Err", "login_send")
               /\ UNCHANGED <<signature, calls>>

\* Variant: a signature is stored although the response did not decode.
LoginJson_stores_first ==
    /\ UNCHANGED <<builderVars, timeVars, stationVars, taskVars>>
    /\ call.pc = "login_json"
    /\ \E response \in {None} \cup { Some(t) : t \in Tokens } :
          IF response # None
          THEN /\ signature' = Some(response[1])
               /\ call' = [call EXCEPT !.pc = "search_send", !.searches = 1,
                                       !.sent = Some(InternalJourneyRequest(response[1],
                                                                            call.journey))]
               /\ UNCHANGED <<calls, outcome>>
          ELSE /\ signature' = Some("")
               /\ call' = [call EXCEPT !.pc = "idle"]
               /\ outcome' = Returned("Err", "login_json")
               /\ UNCHANGED calls

\* init(): `.json().await?`, then `self.signature = Some(..)`; back in
\* find_journeys the search request is built with the signature and sent.
LoginJson ==
    /\ UNCHANGED <<builderVars, timeVars, stationVars, taskVars>>
    /\ call.pc = "login_json"
    /\ \E response \in {None} \cup { Some(t) : t \in Tokens } :
          IF response # None
          THEN /\ signature' = Some(response[1])
               /\ call' = [call EXCEPT !.pc = "search_send", !.searches = 1,
                                       !.sent = Some(InternalJourneyRequest(response[1],
                                                                            call.journey))]
               /\ UNCHANGED <<calls, outcome>>
          ELSE /\ call' = [call EXCEPT !.pc = "idle"]
               /\ outcome' = Returned("Err", "login_json")
               /\ UNCHANGED <<signature, calls>>

\* find_journeys: `.send().await?`
SearchSend ==
    /\ UNCHANGED <<builderVars, timeVars, stationVars, taskVars>>
    /\ call.pc = "search_send"
    /\ \E ok \in BOOLEAN :
          IF ok
          THEN /\ call' = [call EXCEPT !.pc = "search_json"]
               /\ UNCHANGED <<signature, calls, outcome>>
          ELSE /\ call' = [call EXCEPT !.pc = "idle"]
               /\ outcome' = Returned("Err", "search_send")
               /\ UNCHANGED <<signature, calls>>

\* find_journeys: `.json().await?`
SearchJson ==
    /\ UNCHANGED <<builderVars, timeVars, stationVars, taskVars>>
    /\ call.pc = "search_json"
    /\ \E ok \in BOOLEAN :
          /\ call' = [call EXCEPT !.pc = "idle"]
          /\ outcome' = IF ok THEN Returned("Ok", "search_json")
                        ELSE Returned("Err", "search_json")
          /\ UNCHANGED <<signature, calls>>

\* #[derive(Default)] ItaloApi: no signature.
ApiInit ==
    /\ signature = None
    /\ call = IdleCall
    /\ calls = 0
    /\ outcome = Pending

(***************************************************************************)
(* ItaloApi shared by several callers                                      *)
(***************************************************************************)
MaxTaskCalls == 2

\* The tasks that share one ItaloApi.
Callers == {"a", "b"}

\* The stages in which a call holds the `&mut self` it was entered with.
InFlight == {"login_send", "login_json", "search_send", "search_json"}

\* Per caller, its current (or last) find_journeys call: where it is, whether
\* it was issued while no signature was held, what is_initialized() answered
\* when it was entered, the logins it has posted, the signature its login
\* stored, and how many calls the caller has issued.
IdleTask ==
    [pc |-> "idle", issued_without_session |-> FALSE, observed |-> "none",
     logins |-> 0, stored |-> None, result |-> "none", n |-> 0]

\* Variant: find_journeys on a shared reference, nothing keeps a second call
\* from being entered while one is in flight.
exclusive_shared(c) == TRUE

\* find_journeys(&mut self, ..): a call is entered only while no other call
\* on the same ItaloApi is in flight (the exclusive borrow lasts until the
\* returned future has completed).
exclusive(c) == \A d \in Callers \ {c} : tasks[d].pc \notin InFlight

OtherUnchanged == UNCHANGED <<builderVars, timeVars, stationVars, call, calls, outcome>>

\* A caller asks for a find_journeys call on the shared ItaloApi.
Issue(c) ==
    /\ tasks[c].pc \in {"idle", "done"}
    /\ tasks[c].n < MaxTaskCalls
    /\ tasks' = [tasks EXCEPT ![c] = [IdleTask EXCEPT !.pc = "waiting",
                                                      !.issued_without_session =
                                                          ~is_initialized(signature),
                                                      !.n = tasks[c].n + 1]]
    /\ signature' = signature
    /\ OtherUnchanged

\* The call is entered: `match self.is_initialized()`; without a signature
\* init() posts the login request.
Enter(c) ==
    /\ tasks[c].pc = "waiting"
    /\ exclusive(c)
    /\ tasks' = [tasks EXCEPT ![c] =
                    IF is_initialized(signature)
                    THEN [@ EXCEPT !.pc = "search_send", !.observed = "token"]
                    ELSE [@ EXCEPT !.pc = "login_send", !.observed = "no_token",
                                   !.logins = 1]]
    /\ signature' = signature
    /\ OtherUnchanged

Return(c, result) == tasks' = [tasks EXCEPT ![c].pc = "done", ![c].result = result]

\* init(): `.send().await?`
TaskLoginSend(c) ==
    /\ tasks[c].pc = "login_send"
    /\ \E ok \in BOOLEAN :
          IF ok THEN tasks' = [tasks EXCEPT ![c].pc = "login_json"]
          ELSE Return(c, "Err")
    /\ signature' = signature
    /\ OtherUnchanged

\* init(): `.json().await?`, then `self.signature = Some(..)`
TaskLoginJson(c) ==
    /\ tasks[c].pc = "login_json"
    /\ \E response \in {None} \cup { Some(t) : t \in Tokens } :
          IF response # None
          THEN /\ signature' = Some(response[1])
               /\ tasks' = [tasks EXCEPT ![c].pc = "search_send",
                                         ![c].stored = Some(response[1])]
          ELSE /\ Return(c, "Err")
               /\ signature' = signature
    /\ OtherUnchanged

\* find_journeys: `.send().await?`
TaskSearchSend(c) ==
    /\ tasks[c].pc = "search_send"
    /\ \E ok \in BOOLEAN :
          IF ok THEN tasks' = [tasks EXCEPT ![c].pc = "search_json"]
          ELSE Return(c, "Err")
    /\ signature' = signature
    /\ OtherUnchanged

\* find_journeys: `.json().await?`
TaskSearchJson(c) ==
    /\ tasks[c].pc = "search_json"
    /\ \E ok \in BOOLEAN : Return(c, IF ok THEN "Ok" ELSE "Err")
    /\ signature' = signature
    /\ OtherUnchanged

TasksIdle == tasks = [c \in Callers |-> IdleTask]

(***************************************************************************)
(* Specifications                                                          *)
(***************************************************************************)
BuilderIdle == req = DefaultJourneyRequest /\ last = [op |-> "default", arg |-> NoArg, ok |-> TRUE, out |-> <<>>]

TimesIdle == leg = IdleLeg /\ access = NoAccess

StationsIdle == page = IdlePage /\ stations = NoStations

ApiIdle == ApiInit

Init == BuilderInit /\ TimesIdle /\ StationsIdle /\ ApiIdle /\ TasksIdle

Next ==
    \/ SetDepartureStation
    \/ SetArrivalStation
    \/ SetIntervalStartDateTime
    \/ SetIntervalEndDateTime
    \/ SetAdultNumber
    \/ SetChildNumber
    \/ SetInfantNumber
    \/ SetSeniorNumber
    \/ SetOverrideIntervalTimeRestriction
    \/ SetCurrencyCode
    \/ SetRoundTrip
    \/ Serialize

\* The JourneyRequest builder under any sequence of setter calls.
Spec == Init /\ [][Next]_vars

TimesSpecInit == TimesInit /\ BuilderIdle /\ StationsIdle /\ ApiIdle /\ TasksIdle

TimesSpecNext ==
    \/ DepartureTime
    \/ ArrivalTime

\* A received segment or stop and its time accessors.
SpecTimes == TimesSpecInit /\ [][TimesSpecNext]_vars

StationsSpecInit == StationsInit /\ BuilderIdle /\ TimesIdle /\ ApiIdle /\ TasksIdle

StationsSpecNext == StationList

\* One station_list call on a fetched page.
SpecStations == StationsSpecInit /\ [][StationsSpecNext]_vars

ApiSpecInit == ApiInit /\ BuilderIdle /\ TimesIdle /\ StationsIdle /\ TasksIdle

ApiSpecNext ==
    \/ FindJourneys
    \/ LoginSend
    \/ LoginJson
    \/ SearchSend
    \/ SearchJson

\* One ItaloApi and the find_journeys calls made on it, one after another.
SpecApi == ApiSpecInit /\ [][ApiSpecNext]_vars

TasksSpecInit == TasksIdle /\ ApiIdle /\ BuilderIdle /\ TimesIdle /\ StationsIdle

TasksSpecNext ==
    \E c \in Callers :
        \/ Issue(c)
        \/ Enter(c)
        \/ TaskLoginSend(c)
        \/ TaskLoginJson(c)
        \/ TaskSearchSend(c)
        \/ TaskSearchJson(c)

\* One ItaloApi and the find_journeys calls several callers issue on it.
SpecTasks == TasksSpecInit /\ [][TasksSpecNext]_vars

(***************************************************************************)
(* Properties of the builder (Spec)                                        *)
(***************************************************************************)
RoundTripCall == last.op = "set_round_trip"

\* C1: in every state reached from JourneyRequest::default() by setter
\* calls, the two round-trip dates are both absent or both present, and the
\* round_trip flag is true exactly when both are present.
C1_RoundTripFieldsConsistent ==
    /\ (req.round_trip_interval_start_date_time = None)
          <=> (req.round_trip_interval_end_date_time = None)
    /\ req.round_trip
          <=> (/\ req.round_trip_interval_start_date_time # None
               /\ req.round_trip_interval_end_date_time # None)

\* A round-trip request on which a later set_round_trip(true, None, None) failed.
C1_Witness ==
    /\ RoundTripCall /\ ~last.ok
    /\ last.arg.start = None /\ last.arg.end = None
    /\ req.round_trip
    /\ req.round_trip_interval_end_date_time # None

\* C2: set_round_trip with flag true and a date missing returns an error
\* from every builder state and leaves every field of the builder as it was.
C2_FailingRoundTripChangesNothing ==
    [][ (/\ last'.op = "set_round_trip"
         /\ last'.arg.flag
         /\ (last'.arg.start = None \/ last'.arg.end = None))
        => (~last'.ok /\ req' = req) ]_vars

\* set_round_trip(true, Some(s), None) has failed on a builder that holds
\* round-trip dates and non-default passenger numbers.
C2_Witness ==
    /\ RoundTripCall /\ ~last.ok
    /\ last.arg.start # None /\ last.arg.end = None
    /\ req.round_trip
    /\ req.round_trip_interval_start_date_time # None
    /\ req.adult_number = 2

\* C3: set_round_trip with flag false succeeds whatever dates are passed and
\* whatever the builder held; afterwards both round-trip dates are absent and
\* the flag is false, and no other field has changed.
C3_FlagFalseClearsOnlyRoundTrip ==
    [][ (last'.op = "set_round_trip" /\ ~last'.arg.flag)
        => (/\ last'.ok
            /\ req' = [req EXCEPT !.round_trip = FALSE,
                                  !.round_trip_interval_start_date_time = None,
                                  !.round_trip_interval_end_date_time = None]) ]_vars

\* set_round_trip(false, Some(s), Some(e)) has run on a builder with
\* non-default fields.
C3_Witness ==
    /\ RoundTripCall /\ last.ok /\ ~last.arg.flag
    /\ last.arg.start # None /\ last.arg.end # None
    /\ ~req.round_trip
    /\ req.round_trip_interval_start_date_time = None
    /\ req.round_trip_interval_end_date_time = None
    /\ req.departure_station = "NAC" /\ req.currency_code = "USD"

StartCall == last.op = "set_interval_start_date_time"

EndCall == last.op = "set_interval_end_date_time"

RoundTripStored == RoundTripCall /\ last.ok /\ last.arg.flag

WholeSecond(t) == [secs |-> t.secs, millis |-> 0]

\* C6 as stated: decoding with extract_utc_time the string a request setter
\* produced for the instant t yields exactly t, milliseconds included.
C6_DecodeEncodeIsIdentity ==
    /\ StartCall => extract_utc_time(req.interval_start_date_time) = Ok(last.arg.time[1])
    /\ EndCall => extract_utc_time(req.interval_end_date_time) = Ok(last.arg.time[1])
    /\ RoundTripStored =>
          /\ extract_utc_time(req.round_trip_interval_start_date_time[1]) = Ok(last.arg.start[1])
          /\ extract_utc_time(req.round_trip_interval_end_date_time[1]) = Ok(last.arg.end[1])

\* C6, amended: decoding the string a request setter produced for t yields
\* t cut down to its whole second (the millisecond part is lost); it is t
\* itself exactly when t has no millisecond part.
C6_DecodeEncodeIsWholeSecond ==
    /\ StartCall =>
          extract_utc_time(req.interval_start_date_time) = Ok(WholeSecond(last.arg.time[1]))
    /\ EndCall =>
          extract_utc_time(req.interval_end_date_time) = Ok(WholeSecond(last.arg.time[1]))
    /\ RoundTripStored =>
          /\ extract_utc_time(req.round_trip_interval_start_date_time[1])
                = Ok(WholeSecond(last.arg.start[1]))
          /\ extract_utc_time(req.round_trip_interval_end_date_time[1])
                = Ok(WholeSecond(last.arg.end[1]))

\* An instant with a millisecond part has been stored as the interval start.
C6_Witness ==
    /\ StartCall
    /\ last.arg.time[1].millis = 123
    /\ req.interval_start_date_time # <<>>

DatePrefix == <<"/", "D", "a", "t", "e", "(">>

EncodedAsSeconds(t) ==
    DatePrefix \o Decimal(t.secs) \o <<"+", "0", "0", "0", "0", ")", "/">>

EncodedAsMillis(t) ==
    DatePrefix \o Decimal(t.secs) \o <<"0", "0", "0", "+", "0", "0", "0", "0", ")", "/">>

Date1700000000 ==
    <<"/","D","a","t","e","(","1","7","0","0","0","0","0","0","0","0",
      "+","0","0","0","0",")","/">>

Date1700000000000 ==
    <<"/","D","a","t","e","(","1","7","0","0","0","0","0","0","0","0","0","0","0",
      "+","0","0","0","0",")","/">>

\* C8 as stated: an instant at epoch second S is written /Date(S+0000)/, the
\* instant at epoch millisecond 1700000000000 as /Date(1700000000+0000)/.
C8_EncodedInSeconds ==
    /\ StartCall =>
          /\ req.interval_start_date_time = EncodedAsSeconds(last.arg.time[1])
          /\ last.arg.time[1] = [secs |-> 1700000000, millis |-> 0]
                => req.interval_start_date_time = Date1700000000
    /\ EndCall => req.interval_end_date_time = EncodedAsSeconds(last.arg.time[1])
    /\ RoundTripStored =>
          /\ req.round_trip_interval_start_date_time = Some(EncodedAsSeconds(last.arg.start[1]))
          /\ req.round_trip_interval_end_date_time = Some(EncodedAsSeconds(last.arg.end[1]))

\* C8, amended: an instant at epoch second S is written /Date(S000+0000)/,
\* the epoch second followed by three zeros (the epoch millisecond of the
\* whole second) and the offset +0000; the instant at epoch millisecond
\* 1700000000000 is written /Date(1700000000000+0000)/.
C8_EncodedInMillis ==
    /\ StartCall =>
          /\ req.interval_start_date_time = EncodedAsMillis(last.arg.time[1])
          /\ last.arg.time[1] = [secs |-> 1700000000, millis |-> 0]
                => req.interval_start_date_time = Date1700000000000
    /\ EndCall => req.interval_end_date_time = EncodedAsMillis(last.arg.time[1])
    /\ RoundTripStored =>
          /\ req.round_trip_interval_start_date_time = Some(EncodedAsMillis(last.arg.start[1]))
          /\ req.round_trip_interval_end_date_time = Some(EncodedAsMillis(last.arg.end[1]))

\* The instant at epoch millisecond 1700000000000 has been stored as the
\* interval start.
C8_Witness ==
    /\ StartCall
    /\ last.arg.time = Some([secs |-> 1700000000, millis |-> 0])
    /\ req.interval_start_date_time = Date1700000000000

HasKey(payload, k) == \E i \in 1..Len(payload) : payload[i].key = k

\* C10: the serialized JourneyRequest holds each of the two round-trip date
\* keys exactly when that field is set; an unset date is left out, never
\* written as null.
C10_RoundTripKeysOnlyWhenSet ==
    last.op = "serialize" =>
        /\ HasKey(last.out, "RoundTripIntervalStartDateTime")
              <=> (req.round_trip_interval_start_date_time # None)
        /\ HasKey(last.out, "RoundTripIntervalEndDateTime")
              <=> (req.round_trip_interval_end_date_time # None)
        /\ \A i \in 1..Len(last.out) : last.out[i].value[1] # "null"

\* A one-way request, changed through the setters, has been serialized
\* without the two keys.
C10_Witness ==
    /\ last.op = "serialize"
    /\ req.round_trip_interval_start_date_time = None
    /\ req.round_trip_interval_end_date_time = None
    /\ req.arrival_station = "NAC"
    /\ HasKey(last.out, "RoundTrip")
    /\ ~HasKey(last.out, "RoundTripIntervalStartDateTime")
    /\ ~HasKey(last.out, "RoundTripIntervalEndDateTime")

(***************************************************************************)
(* Properties of the session (SpecApi)                                     *)
(***************************************************************************)
\* This step posts the login request.
LoginPosted == call.pc # "login_send" /\ call'.pc = "login_send"

\* This step returns from find_journeys out of init().
LoginFailed == call.pc \in {"login_send", "login_json"} /\ call'.pc = "idle"

\* C4: over any sequence of find_journeys calls on one ItaloApi, the login
\* request is posted only by a call that began with no token held; once a
\* token is held, no step of find_journeys posts a login or changes or
\* clears the token, whether the search succeeds or fails.
C4_LoginOnlyWithoutToken ==
    [][ /\ LoginPosted => (signature = None /\ call'.started_with = None)
        /\ call'.logins > 0 => call'.started_with = None
        /\ signature # None => (signature' = signature /\ ~LoginPosted) ]_vars

\* A call that began with a token has failed in the search; the token it
\* began with is still the one held, and it posted no login.
C4_Witness ==
    /\ call.pc = "idle"
    /\ call.started_with # None
    /\ call.logins = 0
    /\ outcome.kind = "Err"
    /\ signature = call.started_with
    /\ calls > 1

\* C5: when the login of find_journeys fails, at its send or at decoding its
\* response, the error is returned, no search request has been sent, no
\* token is stored, and the next find_journeys call posts the login again.
C5_FailedLoginStoresNothing ==
    [][ /\ LoginFailed =>
              /\ outcome'.kind = "Err"
              /\ outcome'.stage \in {"login_send", "login_json"}
              /\ call'.searches = 0 /\ call'.sent = None
              /\ signature' = None
        /\ (/\ call.pc = "idle" /\ call'.pc # "idle"
            /\ outcome.kind = "Err" /\ outcome.stage \in {"login_send", "login_json"})
           => (call'.pc = "login_send" /\ call'.logins = 1 /\ call'.searches = 0) ]_vars

\* After a call whose login response could not be decoded, the next call
\* has posted its own login and awaits the response.
C5_Witness ==
    /\ calls = 2
    /\ outcome = Returned("Err", "login_json")
    /\ call.pc = "login_json"
    /\ call.logins = 1
    /\ signature = None

(***************************************************************************)
(* Properties of the time accessors (SpecTimes)                            *)
(***************************************************************************)
\* A run of characters that is a decimal integer: an optional sign and one
\* or more digits.
IsNumeric(run) ==
    LET body == IF run # <<>> /\ run[1] \in {"+", "-"} THEN Tail(run) ELSE run
    IN  body # <<>> /\ \A i \in 1..Len(body) : IsDigit(body[i])

\* A numeric run outside the 64-bit range, or outside the instants
\* DateTime<Utc> can hold.
OutOfRange(run) ==
    \/ parse_i64(run) = None
    \/ from_timestamp(Div1000(parse_i64(run)[1])) = None

\* The string does not have the shape of an encoded timestamp: no '(', no
\* '+' after the first '(', or a non-numeric or out-of-range run between.
Malformed(s) ==
    LET a == split_once(s, "(")
    IN  \/ a = None
        \/ LET b == split_once(a[1].after, "+")
           IN  \/ b = None
               \/ ~IsNumeric(b[1].before)
               \/ OutOfRange(b[1].before)

\* C7: for every string without the encoded-timestamp shape, the time
\* accessors of JourneySegment and Stop return a failure value; they neither
\* panic nor return a time.
C7_MalformedFieldIsAnError ==
    /\ (access.field = "departure_time" /\ Malformed(leg.departure_time))
          => access.result = Err
    /\ (access.field = "arrival_time" /\ Malformed(leg.arrival_time))
          => access.result = Err

(***************************************************************************)
(* Properties of the station catalog (SpecStations)                        *)
(***************************************************************************)
\* The label the mapping holds for a code: that of the last label record
\* with this value, and "" when there is none.
LabelOf(label_list, code) ==
    LET at == { i \in 1..Len(label_list) : label_list[i].value = code }
    IN  IF at = {} THEN ""
        ELSE label_list[CHOOSE i \in at : \A j \in at : j <= i].label

\* The positions of the code records whose code has a non-empty label.
Labelled(p) ==
    { i \in 1..Len(p.code_list) : LabelOf(p.label_list, p.code_list[i].code) # "" }

\* The k-th smallest member of a set of positions.
Nth(K, k) == CHOOSE i \in K : Cardinality({ j \in K : j <= i }) = k

\* C9: for every label list and code list that station_list parses, the
\* catalog returned is the code records in code-list order, restricted to
\* those whose code has a non-empty label in the label mapping, each with
\* that label as its name; a code without label is dropped and is no
\* failure, and no Station has an empty name.
C9_CatalogIsLabelledCodesInOrder ==
    (stations.called /\ page.fetch = "ok") =>
        /\ stations.result.kind = "Ok"
        /\ LET out == stations.result.value[1]
               K   == Labelled(page)
           IN  /\ Len(out) = Cardinality(K)
               /\ \A k \in 1..Len(out) :
                     /\ out[k].code = page.code_list[Nth(K, k)].code
                     /\ out[k].url_coding = page.code_list[Nth(K, k)].url_coding
                     /\ out[k].name = LabelOf(page.label_list, out[k].code)
                     /\ out[k].name # ""

\* A catalog of one station from three code records: one code has no label
\* record, one has an empty label, and the third has two label records.
C9_Witness ==
    /\ stations.called /\ page.fetch = "ok"
    /\ Len(page.code_list) = 3
    /\ Len(page.label_list) = 2
    /\ stations.result.kind = "Ok"
    /\ Len(stations.result.value[1]) = 1
    /\ stations.result.value[1][1].code = "MC_"
    /\ stations.result.value[1][1].name = "Milano C.le"
    /\ page.code_list[1].code = "RMT"
    /\ page.code_list[3].code = "MC_"
    /\ page.label_list[1].value = "MC_"

(***************************************************************************)
(* Properties of the shared ItaloApi (SpecTasks)                           *)
(***************************************************************************)
LoggingIn(c) == tasks[c].pc \in {"login_send", "login_json"}

\* The caller's call can be entered now, finds no signature and posts a login.
MayEnterWithoutToken(c) ==
    ENABLED (Enter(c) /\ tasks'[c].observed = "no_token" /\ tasks'[c].logins = 1)

\* C11 as stated: when two find_journeys calls have been issued on the same
\* ItaloApi before any session exists and one of them is in its login, the
\* other may be entered as well, observe that no token is held and post a
\* second login.
C11_BothMayLogIn ==
    \A c \in Callers, d \in Callers :
        (/\ c # d
         /\ tasks[c].issued_without_session /\ LoggingIn(c)
         /\ tasks[d].issued_without_session /\ tasks[d].pc = "waiting")
        => MayEnterWithoutToken(d)

\* C11, amended: two find_journeys calls on the same ItaloApi are never in
\* flight together (the method takes &mut self), so of two calls issued
\* before any session exists the second is entered only after the first has
\* returned: there are never two logins in flight, a call entered while a
\* token is held posts no login, the token a login stored is the one held
\* from then on (no later login replaces it), and a second login happens
\* only when it finds no token, that is after the first login failed.
C11_CallsNeverOverlap ==
    [][ /\ Cardinality({ c \in Callers : tasks'[c].pc \in InFlight }) <= 1
        /\ \A c \in Callers :
              /\ (~LoggingIn(c) /\ tasks'[c].pc = "login_send") => signature = None
              /\ (tasks[c].pc = "waiting" /\ tasks'[c].pc # "waiting" /\ signature # None)
                    => (tasks'[c].observed = "token" /\ tasks'[c].logins = 0)
        /\ signature # None => signature' = signature ]_vars

\* Two calls were issued before any session existed; the first logged in and
\* is done, the second was entered afterwards, found the token the first had
\* stored and posted no login.
C11_Witness ==
    /\ tasks["a"].issued_without_session /\ tasks["b"].issued_without_session
    /\ tasks["a"].n = 1 /\ tasks["b"].n = 1
    /\ tasks["a"].pc = "done" /\ tasks["a"].logins = 1
    /\ tasks["a"].stored = signature /\ signature # None
    /\ tasks["b"].pc = "search_json"
    /\ tasks["b"].observed = "token" /\ tasks["b"].logins = 0

====
